---- MODULE Spec2Model ----
(***************************************************************************)
(* passport-tosan: the Tosan OAuth 2.0 strategy (lib/strategy.js) and its  *)
(* error types (lib/errors/tosantokenerror.js).                            *)
(*                                                                         *)
(* One strategy instance holds the options record; the framework runs any  *)
(* number of authentication attempts against it, and the token exchange    *)
(* and the profile GET of an attempt complete asynchronously, so the steps *)
(* of different attempts interleave.                                       *)
(*                                                                         *)
(* A JavaScript value that may be undefined is a set with at most one      *)
(* element: {} is undefined (an absent property), {v} is the value v.      *)
(***************************************************************************)
EXTENDS Integers, Sequences, FiniteSets, TLC

VARIABLES
    configured,   \* the options object as the application passed it to the constructor
    options,      \* this._options, shared by every attempt
    oauth2,       \* this._oauth2: the settings userProfile puts on the OAuth2 client
    pc,           \* per attempt: "idle", "token", "profile", "returned", "threw", "done"
    query,        \* per attempt: req.query of its authenticate call
    outcome,      \* per attempt: what authenticate reported to the framework
    delegated,    \* per attempt: calls of OAuth2Strategy.prototype.authenticate
    tokenBody,    \* per attempt: the body handed to parseErrorResponse
    parsed,       \* per attempt: what parseErrorResponse returned or threw
    readBank,     \* per attempt: userProfile's local variable bankId
    doneArgs,     \* per attempt: the calls of userProfile's done callback, in order
    bankWriter    \* the attempt whose authenticate last wrote options.bankId

vars == <<configured, options, oauth2, pc, query, outcome, delegated,
          tokenBody, parsed, readBank, doneArgs, bankWriter>>

\* The concurrent authentication attempts on the one strategy instance.
Reqs == {"r1", "r2"}

\* No attempt: the constructor wrote options.bankId.
Constructor == "constructor"

-----------------------------------------------------------------------------
(* JavaScript values *)

JStr(s) == [t |-> "string", s |-> s, n |-> 0]
JNum(n) == [t |-> "number", s |-> "", n |-> n]
NaN == [t |-> "number", s |-> "NaN", n |-> 0]

\* The value of a defined Maybe.
Val(m) == CHOOSE v \in m : TRUE

\* Truthiness of a string-valued query parameter or option: defined and not "".
Truthy(m) == m # {} /\ Val(m) # ""

\* Truthiness of a parameter held as a sequence of characters.
TruthyChars(m) == m # {} /\ Len(Val(m)) > 0

\* x || d for a string-valued option.
OrDefault(m, d) == IF Truthy(m) THEN Val(m) ELSE d

\* !!x for the sandbox option (a boolean when given).
ToBoolean(m) == m # {} /\ Val(m)

-----------------------------------------------------------------------------
(* parseInt(string, 10) *)

Digits == {"0", "1", "2", "3", "4", "5", "6", "7", "8", "9"}

DigitValue(c) ==
    CASE c = "0" -> 0 [] c = "1" -> 1 [] c = "2" -> 2 [] c = "3" -> 3
      [] c = "4" -> 4 [] c = "5" -> 5 [] c = "6" -> 6 [] c = "7" -> 7
      [] c = "8" -> 8 [] c = "9" -> 9

RECURSIVE SkipWhite(_)
SkipWhite(s) ==
    IF Len(s) > 0 /\ Head(s) = " " THEN SkipWhite(Tail(s)) ELSE s

\* The longest prefix of decimal digits of s, read as a number from acc.
RECURSIVE ReadDigits(_, _)
ReadDigits(s, acc) ==
    IF Len(s) > 0 /\ Head(s) \in Digits
    THEN ReadDigits(Tail(s), 10 * acc + DigitValue(Head(s)))
    ELSE acc

\* parseInt(s, 10): leading white space, an optional sign, then the longest
\* run of decimal digits; NaN when there is no digit.
ParseInt(s) ==
    LET body == SkipWhite(s)
        neg == Len(body) > 0 /\ Head(body) = "-"
        rest == IF Len(body) > 0 /\ Head(body) \in {"-", "+"} THEN Tail(body) ELSE body
    IN  IF Len(rest) = 0 \/ Head(rest) \notin Digits
        THEN NaN
        ELSE JNum(IF neg THEN 0 - ReadDigits(rest, 0) ELSE ReadDigits(rest, 0))

-----------------------------------------------------------------------------
(* lib/errors: the error objects, by the properties a caller can read.     *)
(* A property the constructor does not set reads as undefined.             *)

Err(name, message, type, code, subcode, status) ==
    [name |-> name, message |-> message, type |-> type, code |-> code,
     subcode |-> subcode, status |-> status]

\* function TosanTokenError(message, type, code, subcode)
TosanTokenError(message, type, code, subcode) ==
    Err("TosanTokenError", message, type, code, subcode, {JNum(500)})

\* function TosanAuthorizationError(message, code)
TosanAuthorizationError(message, code) ==
    Err("TosanAuthorizationError", message, {}, code, {}, {JNum(500)})

\* What require('./errors/tosantokenerror') yields: the file assigns
\* module.exports twice and the second assignment, TosanAuthorizationError,
\* is the one that stands.  Called with four arguments, it takes the first
\* two as (message, code).
RequireTosanTokenError(message, type, code, subcode) ==
    TosanAuthorizationError(message, type)

\* What require('./errors/tosanauthorizationerror') yields: an error carrying
\* a message and a numeric code.
RequireTosanAuthorizationError(message, code) ==
    Err("TosanAuthorizationError", message, {}, code, {}, {})

\* passport-oauth2's errors, as the strategy and its base build them.
InternalOAuthError(message) ==
    Err("InternalOAuthError", {JStr(message)}, {}, {}, {}, {})

PlainError(message) ==
    Err("Error", {JStr(message)}, {}, {}, {}, {})

-----------------------------------------------------------------------------
(* Strategy(options, verify) *)

DefaultAuthorizationURL == "https://app.tosanboom.com:4433/oauth/authorize"
DefaultTokenURL == "https://app.tosanboom.com:4433/oauth/token"
DefaultProfileURL == "https://app.tosanboom.com:4432/v1/accounts"

\* The constructor without its remapping step.
RemapNever(sandbox, bankId) == bankId

\* The bank id after the constructor's remapping.
RemapBankId(sandbox, bankId) ==
    IF ~sandbox /\ bankId = "ANSBIR" THEN "BOOMIR" ELSE bankId

\* The options record the constructor leaves in this._options.  The Basic
\* header is kept as the string that is Base64-encoded.
Strategy(opts) ==
    LET sandbox == ToBoolean(opts.sandbox)
        clientID == OrDefault(opts.clientID, "")
        clientSecret == OrDefault(opts.clientSecret, "")
    IN  [sandbox |-> sandbox,
         bankId |-> RemapBankId(sandbox, OrDefault(opts.bankId, "ANSBIR")),
         boomToken |-> OrDefault(opts.boomToken, ""),
         deviceId |-> OrDefault(opts.deviceId, ""),
         state |-> OrDefault(opts.state, "1"),
         clientID |-> clientID,
         clientSecret |-> clientSecret,
         authorizationURL |-> OrDefault(opts.authorizationURL, DefaultAuthorizationURL),
         tokenURL |-> OrDefault(opts.tokenURL, DefaultTokenURL),
         scope |-> OrDefault(opts.scope, ""),
         scopeSeparator |-> OrDefault(opts.scopeSeparator, ","),
         callbackURL |-> OrDefault(opts.callbackURL, ""),
         profileURL |-> OrDefault(opts.profileURL, DefaultProfileURL),
         customHeaders |-> [Authorization |-> <<"Basic", clientID, ":", clientSecret>>]]

\* Strategy.prototype.authorizationParams
AuthorizationParams(o) ==
    [device_id |-> o.deviceId,
     state |-> o.state,
     sandbox |-> o.sandbox,
     bank_id |-> o.bankId,
     boom_token |-> o.boomToken,
     response_type |-> "code",
     client_id |-> o.clientID]

-----------------------------------------------------------------------------
(* Response bodies.  A body is text; it is held as what JSON.parse makes   *)
(* of it: syntax "malformed" (JSON.parse throws), "null" (the document     *)
(* null) or "object", with the document's error and error_description      *)
(* members.  An error member is a string (t = "string", s) or an object    *)
(* (t = "object") with members message, type, code and error_subcode.      *)

ErrorString(s) ==
    [t |-> "string", s |-> s, message |-> {}, type |-> {}, code |-> {},
     error_subcode |-> {}]

ErrorObject(message, type, code, error_subcode) ==
    [t |-> "object", s |-> "", message |-> message, type |-> type, code |-> code,
     error_subcode |-> error_subcode]

Body(syntax, error, description) ==
    [syntax |-> syntax, error |-> error, error_description |-> description]

\* json.error is truthy: an object, or a string other than "".
ErrorTruthy(json) ==
    json.error # {} /\ (Val(json.error).t = "object" \/ Val(json.error).s # "")

\* The test without its typeof conjunct.
ErrorIsObjectNoTypeof(json) == ErrorTruthy(json)

\* json.error && typeof json.error == 'object'
ErrorIsObject(json) ==
    ErrorTruthy(json) /\ Val(json.error).t = "object"

\* What a call returns: the value, or the name of the exception it threw.
Returned(v) == [threw |-> {}, ret |-> v]
Threw(name) == [threw |-> {name}, ret |-> {}]

\* OAuth2Strategy.prototype.parseErrorResponse of passport-oauth2: a
\* TokenError from the flat error, error_description members, else null.
BaseParseErrorResponse(body, status) ==
    IF body.syntax = "malformed" THEN Threw("SyntaxError")
    ELSE IF body.syntax = "null" THEN Threw("TypeError")
    ELSE IF ErrorTruthy(body)
         THEN Returned({Err("TokenError", body.error_description, {},
                            {JStr(Val(body.error).s)}, {}, {JNum(500)})})
         ELSE Returned({})

\* Strategy.prototype.parseErrorResponse
ParseErrorResponse(body, status) ==
    IF body.syntax = "malformed" THEN Threw("SyntaxError")
    ELSE IF body.syntax = "null" THEN Threw("TypeError")
    ELSE IF ErrorIsObject(body)
         THEN LET e == Val(body.error)
              IN  Returned({RequireTosanTokenError(e.message, e.type, e.code,
                                                   e.error_subcode)})
         ELSE BaseParseErrorResponse(body, status)

-----------------------------------------------------------------------------
(* Strategy.prototype.authenticate *)

\* The test with the negation of req.query.error dropped.
InterceptedMissingNot(q) == TruthyChars(q.error_code) /\ Truthy(q.error)

\* The test without its req.query.error conjunct.
InterceptedIgnoringError(q) == TruthyChars(q.error_code)

\* req.query.error_code && !req.query.error
Intercepted(q) == TruthyChars(q.error_code) /\ ~Truthy(q.error)

\* The bank id kept out of the shared options.
OverwriteNothing(o, q) == o

\* The assignment without its guard: an absent bank_id is stored as it reads.
OverwriteBankIdUnguarded(o, q) ==
    [o EXCEPT !.bankId = IF q.bank_id = {} THEN "undefined" ELSE Val(q.bank_id)]

\* if (req.query.bank_id) this._options.bankId = req.query.bank_id
OverwriteBankId(o, q) ==
    IF Truthy(q.bank_id) THEN [o EXCEPT !.bankId = Val(q.bank_id)] ELSE o

\* What an attempt has reported to the framework.
Outcome(kind, err, params) == [kind |-> kind, err |-> err, params |-> params]
NoOutcome == Outcome("none", {}, {})

\* The error_message parameter as the message of an error.
Message(m) == IF m = {} THEN {} ELSE {JStr(Val(m))}

\* OAuth2Strategy.prototype.authenticate of passport-oauth2, up to its first
\* asynchronous call: a standard error parameter fails or errors the attempt,
\* a code starts the token exchange, and anything else redirects to the
\* authorization URL with authorizationParams().
BaseAuthenticate(o, q) ==
    IF Truthy(q.error)
    THEN IF Val(q.error) = "access_denied"
         THEN Outcome("fail", {}, {})
         ELSE Outcome("error", {Err("AuthorizationError", {}, {},
                                    {JStr(Val(q.error))}, {}, {})}, {})
    ELSE IF Truthy(q.code)
         THEN Outcome("exchange", {}, {})
         ELSE Outcome("redirect", {}, {AuthorizationParams(o)})

Authenticate(r, q) ==
    /\ pc[r] = "idle"
    /\ query' = [query EXCEPT ![r] = {q}]
    /\ IF Intercepted(q)
       THEN /\ outcome' = [outcome EXCEPT ![r] =
                   Outcome("error",
                           {RequireTosanAuthorizationError(
                                Message(q.error_message), {ParseInt(Val(q.error_code))})},
                           {})]
            /\ pc' = [pc EXCEPT ![r] = "done"]
            /\ UNCHANGED <<options, delegated, bankWriter>>
       ELSE LET o == OverwriteBankId(options, q)
                res == BaseAuthenticate(o, q)
            IN  /\ options' = o
                /\ bankWriter' = IF Truthy(q.bank_id) THEN r ELSE bankWriter
                /\ delegated' = [delegated EXCEPT ![r] = @ + 1]
                /\ outcome' = [outcome EXCEPT ![r] = res]
                /\ pc' = [pc EXCEPT ![r] = IF res.kind = "exchange" THEN "token" ELSE "done"]
    /\ UNCHANGED <<configured, oauth2, tokenBody, parsed, readBank, doneArgs>>

-----------------------------------------------------------------------------
(* The token exchange completes (passport-oauth2 calls back) *)

\* The exchange failed.  With a status code and a body, the base asks
\* parseErrorResponse for the error and falls back to an InternalOAuthError
\* when it throws or returns nothing.
TokenExchangeFailed(r, data, status) ==
    /\ pc[r] = "token"
    /\ IF data = {}
       THEN /\ outcome' = [outcome EXCEPT ![r] =
                   Outcome("error", {InternalOAuthError("Failed to obtain access token")}, {})]
            /\ UNCHANGED <<tokenBody, parsed>>
       ELSE LET p == ParseErrorResponse(Val(data), status)
            IN  /\ tokenBody' = [tokenBody EXCEPT ![r] = data]
                /\ parsed' = [parsed EXCEPT ![r] = {p}]
                /\ outcome' = [outcome EXCEPT ![r] =
                       Outcome("error",
                               IF p.threw # {} \/ p.ret = {}
                               THEN {InternalOAuthError("Failed to obtain access token")}
                               ELSE p.ret,
                               {})]
    /\ pc' = [pc EXCEPT ![r] = "done"]
    /\ UNCHANGED <<configured, options, oauth2, query, delegated, readBank,
                   doneArgs, bankWriter>>

\* Strategy.prototype.userProfile up to this._oauth2.get: the bank id is
\* read into the local variable and the GET is issued.
UserProfile(r) ==
    /\ readBank' = [readBank EXCEPT ![r] = {options.bankId}]
    /\ oauth2' = [authMethod |-> "Bearer", useAuthorizationHeaderforGET |-> TRUE]
    /\ pc' = [pc EXCEPT ![r] = "profile"]

\* The exchange succeeded: the base loads the profile through userProfile.
TokenExchangeSucceeded(r) ==
    /\ pc[r] = "token"
    /\ UserProfile(r)
    /\ UNCHANGED <<configured, options, query, outcome, delegated, tokenBody,
                   parsed, doneArgs, bankWriter>>

-----------------------------------------------------------------------------
(* The callback of this._oauth2.get in userProfile *)

DoneError(e) == [err |-> {e}, profile |-> {}]
DoneProfile(p) == [err |-> {}, profile |-> {p}]

\* profile.bankId
ReportedBankId(bankId) == IF bankId = "BOOMIR" THEN "ANSBIR" ELSE bankId

\* The calls of done the callback makes, and the exception that ends it if
\* one does.  failed: the GET reported an error, and data is err.data;
\* otherwise data is the response body.
ProfileCallback(failed, data, bankId) ==
    IF failed
    THEN IF data # {} /\ Val(data).syntax = "object" /\ ErrorIsObject(Val(data))
         THEN \* new BoomrangAPIError(...): the name is bound nowhere
              [calls |-> <<>>,
               threw |-> {Err("ReferenceError",
                              {JStr("BoomrangAPIError is not defined")}, {}, {}, {}, {})}]
         ELSE [calls |-> <<DoneError(InternalOAuthError("Failed to fetch user profile"))>>,
               threw |-> {}]
    ELSE IF Val(data).syntax = "malformed"
         THEN [calls |-> <<DoneError(PlainError("Failed to parse user profile"))>>,
               threw |-> {}]
         ELSE IF Val(data).syntax = "null"
              THEN \* profile.provider = 'tosan' on null
                   [calls |-> <<>>,
                    threw |-> {Err("TypeError",
                                   {JStr("Cannot set property 'provider' of null")},
                                   {}, {}, {}, {})}]
              ELSE [calls |-> <<DoneProfile([provider |-> "tosan",
                                             bankId |-> ReportedBankId(bankId)])>>,
                    threw |-> {}]

\* The callback runs.  The base's continuation of done: an error ends the
\* attempt, a profile goes on to the application's verify callback.  An
\* exception leaves the callback uncaught.
ProfileResponse(r, failed, data) ==
    /\ pc[r] = "profile"
    /\ failed \/ data # {}
    /\ LET c == ProfileCallback(failed, data, Val(readBank[r]))
       IN  /\ doneArgs' = [doneArgs EXCEPT ![r] = @ \o c.calls]
           /\ outcome' = [outcome EXCEPT ![r] =
                  IF c.calls = <<>> THEN Outcome("uncaught", c.threw, {})
                  ELSE IF c.calls[1].err # {}
                       THEN Outcome("error", c.calls[1].err, {})
                       ELSE Outcome("verify", {}, {})]
           /\ pc' = [pc EXCEPT ![r] = IF c.threw = {} THEN "returned" ELSE "threw"]
    /\ UNCHANGED <<configured, options, oauth2, query, delegated, tokenBody,
                   parsed, readBank, bankWriter>>

-----------------------------------------------------------------------------
(* Inputs *)

BankIds == {"ANSBIR", "BOOMIR", "MELIIR"}

\* An optional member drawn from S.
Optional(S) == {{}} \cup {{v} : v \in S}

\* The options the application passes: sandbox and bankId vary, the other
\* members are left to their defaults.
OptionInputs ==
    [sandbox : Optional(BOOLEAN), bankId : Optional(BankIds),
     boomToken : {{}}, deviceId : {{}}, state : {{}}, clientID : {{"app"}},
     clientSecret : {{"secret"}}, authorizationURL : {{}}, tokenURL : {{}},
     scope : {{}}, scopeSeparator : {{}}, callbackURL : {{}}, profileURL : {{}}]

\* error_code values: empty, a number, a number followed by a letter, no
\* number at all.
ErrorCodes == {<<>>, <<"4", "2">>, <<"4", "x">>, <<"x">>}

\* The queries of the authorize callback.
AllQueries ==
    [error_code : Optional(ErrorCodes), error_message : Optional({"bad"}),
     error : Optional({"", "access_denied"}), bank_id : Optional({"", "MELIIR"}),
     code : Optional({"c"})]

\* The queries of the attempts that are followed through the token exchange
\* and the profile GET.
FlowQueries ==
    [error_code : Optional({<<"4", "2">>}), error_message : {{}},
     error : {{}}, bank_id : Optional({""} \cup BankIds), code : Optional({"c"})]

Bodies ==
    {Body("malformed", {}, {}), Body("null", {}, {}), Body("object", {}, {}),
     Body("object", {ErrorString("")}, {}),
     Body("object", {ErrorString("invalid_grant")}, {JStr("expired")}),
     Body("object", {ErrorObject({JStr("m")}, {JStr("t")}, {JNum(1)}, {JNum(2)})}, {}),
     Body("object", {ErrorObject({JStr("m2")}, {}, {JNum(7)}, {})}, {})}

Statuses == {400, 500}

-----------------------------------------------------------------------------
(* Specifications *)

Init ==
    /\ configured \in OptionInputs
    /\ options = Strategy(configured)
    /\ oauth2 = [authMethod |-> "Bearer", useAuthorizationHeaderforGET |-> FALSE]
    /\ pc = [r \in Reqs |-> "idle"]
    /\ query = [r \in Reqs |-> {}]
    /\ outcome = [r \in Reqs |-> NoOutcome]
    /\ delegated = [r \in Reqs |-> 0]
    /\ tokenBody = [r \in Reqs |-> {}]
    /\ parsed = [r \in Reqs |-> {}]
    /\ readBank = [r \in Reqs |-> {}]
    /\ doneArgs = [r \in Reqs |-> <<>>]
    /\ bankWriter = Constructor

\* The attempts from callback to profile, interleaved.
Next ==
    \/ \E r \in Reqs, q \in FlowQueries : Authenticate(r, q)
    \/ \E r \in Reqs, data \in Optional(Bodies), status \in Statuses :
           TokenExchangeFailed(r, data, status)
    \/ \E r \in Reqs : TokenExchangeSucceeded(r)
    \/ \E r \in Reqs, failed \in BOOLEAN, data \in Optional(Bodies) :
           ProfileResponse(r, failed, data)

Spec == Init /\ [][Next]_vars

\* The authenticate calls alone, over every query.
NextAuth == \E r \in Reqs, q \in AllQueries : Authenticate(r, q)

SpecAuth == Init /\ [][NextAuth]_vars

-----------------------------------------------------------------------------
(* Properties *)

\* The attempts whose authenticate has been called, with their queries.
Called(r) == query[r] # {}
Q(r) == Val(query[r])

\* The profiles userProfile has delivered to attempt r's done callback.
Profiles(r) ==
    {doneArgs[r][i].profile : i \in 1..Len(doneArgs[r])} \ {{}}

\* Attempt r was failed with the strategy's own authorization error.
RaisedAuthorizationError(r) ==
    /\ outcome[r].kind = "error"
    /\ outcome[r].err # {}
    /\ Val(outcome[r].err).name = "TosanAuthorizationError"

\* C1: a request whose query carries a non-empty error_code and no error
\* field is failed with an authorization error whose message is the query's
\* error_message and whose code is parseInt(error_code, 10) (42 for "42", 4
\* for "4x", NaN for "x"), the base authenticate is not called and no token
\* exchange is started.
C1_InterceptFails ==
    \A r \in Reqs :
        (Called(r) /\ TruthyChars(Q(r).error_code) /\ Q(r).error = {}) =>
            /\ RaisedAuthorizationError(r)
            /\ Val(outcome[r].err).message = Message(Q(r).error_message)
            /\ Val(outcome[r].err).code = {ParseInt(Val(Q(r).error_code))}
            /\ (Val(Q(r).error_code) = <<"4", "2">> =>
                    Val(outcome[r].err).code = {JNum(42)})
            /\ (Val(Q(r).error_code) = <<"4", "x">> =>
                    Val(outcome[r].err).code = {JNum(4)})
            /\ (Val(Q(r).error_code) = <<"x">> => Val(outcome[r].err).code = {NaN})
            /\ delegated[r] = 0
            /\ pc[r] = "done"

C1_Witness ==
    \E r \in Reqs :
        /\ Called(r)
        /\ Q(r).error_code = {<<"4", "2">>}
        /\ Q(r).error_message = {"bad"}
        /\ Q(r).error = {}
        /\ RaisedAuthorizationError(r)
        /\ Val(outcome[r].err).code = {JNum(42)}
        /\ Val(outcome[r].err).message = {JStr("bad")}
        /\ delegated[r] = 0

\* C2: for a token-endpoint body that is valid JSON with an object-valued
\* error member, parseErrorResponse returns a TosanTokenError whose message,
\* type, code and subcode are the object's message, type, code and
\* error_subcode.
C2_TokenErrorFields ==
    \A r \in Reqs :
        (tokenBody[r] # {} /\ Val(tokenBody[r]).syntax = "object"
            /\ ErrorIsObject(Val(tokenBody[r]))) =>
            LET obj == Val(Val(tokenBody[r]).error)
                p == Val(parsed[r])
            IN  /\ p.threw = {}
                /\ p.ret # {}
                /\ Val(p.ret).name = "TosanTokenError"
                /\ Val(p.ret).message = obj.message
                /\ Val(p.ret).type = obj.type
                /\ Val(p.ret).code = obj.code
                /\ Val(p.ret).subcode = obj.error_subcode

\* C3: with sandbox false or absent, no bankId configured and no overwrite by
\* a request, authorizationParams emits bank_id "BOOMIR" and every delivered
\* profile reports bankId "ANSBIR".
C3_DefaultBankId ==
    (~ToBoolean(configured.sandbox) /\ configured.bankId = {}
        /\ bankWriter = Constructor) =>
        /\ AuthorizationParams(options).bank_id = "BOOMIR"
        /\ \A r \in Reqs :
               /\ outcome[r].kind = "redirect" =>
                      Val(outcome[r].params).bank_id = "BOOMIR"
               /\ \A p \in Profiles(r) : Val(p).bankId = "ANSBIR"

C3_Witness ==
    /\ ~ToBoolean(configured.sandbox)
    /\ configured.bankId = {}
    /\ bankWriter = Constructor
    /\ \E r \in Reqs : outcome[r].kind = "redirect"
    /\ \E r \in Reqs : Profiles(r) # {}

\* C4: with sandbox true and a bankId configured, while no request has
\* overwritten it, authorizationParams emits the configured bankId and every
\* delivered profile reports the configured bankId.
C4_SandboxNoRemap ==
    (ToBoolean(configured.sandbox) /\ configured.bankId # {}
        /\ bankWriter = Constructor) =>
        /\ AuthorizationParams(options).bank_id = Val(configured.bankId)
        /\ \A r \in Reqs :
               /\ outcome[r].kind = "redirect" =>
                      Val(outcome[r].params).bank_id = Val(configured.bankId)
               /\ \A p \in Profiles(r) : Val(p).bankId = Val(configured.bankId)

\* C5, as claimed: a request whose query carries both error_code and an
\* error field is not intercepted: no authorization error of the strategy's
\* own, and one call of the base authenticate.
C5_BothCarried ==
    \A r \in Reqs :
        (Called(r) /\ Q(r).error_code # {} /\ Q(r).error # {}) =>
            /\ ~RaisedAuthorizationError(r)
            /\ delegated[r] = 1

\* C5, amended: a request whose query carries error_code and a non-empty
\* error field is not intercepted: no authorization error of the strategy's
\* own, and one call of the base authenticate.
C5_BothNonEmpty ==
    \A r \in Reqs :
        (Called(r) /\ Q(r).error_code # {} /\ Truthy(Q(r).error)) =>
            /\ ~RaisedAuthorizationError(r)
            /\ delegated[r] = 1

C5_Witness ==
    \E r \in Reqs :
        /\ Called(r)
        /\ Q(r).error_code = {<<"4", "2">>}
        /\ Q(r).error = {"access_denied"}
        /\ outcome[r].kind = "fail"
        /\ delegated[r] = 1

\* C6: for a token-endpoint body that is valid JSON whose error member is a
\* string or absent, parseErrorResponse returns what the base
\* parseErrorResponse returns for the same body and status, and that is no
\* error of the strategy's own.
C6_DelegatesToBase ==
    \A r \in Reqs : \A status \in Statuses :
        (tokenBody[r] # {} /\ Val(tokenBody[r]).syntax # "malformed"
            /\ (Val(tokenBody[r]).error = {}
                \/ Val(Val(tokenBody[r]).error).t = "string")) =>
            /\ parsed[r] = {BaseParseErrorResponse(Val(tokenBody[r]), status)}
            /\ \A e \in Val(parsed[r]).ret :
                   e.name \notin {"TosanTokenError", "TosanAuthorizationError"}

C6_Witness ==
    \E r \in Reqs :
        /\ tokenBody[r] # {}
        /\ Val(tokenBody[r]).error = {ErrorString("invalid_grant")}
        /\ Val(parsed[r]).ret # {}
        /\ Val(Val(parsed[r]).ret).name = "TokenError"
        /\ Val(Val(parsed[r]).ret).code = {JStr("invalid_grant")}

\* C7: once the callback of the profile GET has run, done has been called
\* exactly once, with an error or with a profile and not with both.
C7_DoneExactlyOnce ==
    \A r \in Reqs :
        pc[r] \in {"returned", "threw"} =>
            /\ Len(doneArgs[r]) = 1
            /\ (doneArgs[r][1].err = {}) # (doneArgs[r][1].profile = {})

\* C8: outside sandbox mode authorizationParams never emits bank_id
\* "ANSBIR", and a profile read while the bank id is "BOOMIR" reports
\* "ANSBIR".
C8_NeverAnsbirInternally ==
    ~options.sandbox =>
        /\ AuthorizationParams(options).bank_id # "ANSBIR"
        /\ \A r \in Reqs :
               /\ outcome[r].kind = "redirect" =>
                      Val(outcome[r].params).bank_id # "ANSBIR"
               /\ (readBank[r] = {"BOOMIR"} =>
                      \A p \in Profiles(r) : Val(p).bankId = "ANSBIR")

\* C9: the bank id userProfile reads for an attempt is the bank_id of the
\* query of whichever attempt last overwrote the shared options, its own or
\* another's.
C9_ReadsLastWriter ==
    [][\A r \in Reqs :
           (pc[r] = "token" /\ pc'[r] = "profile" /\ bankWriter # Constructor) =>
               readBank'[r] = Q(bankWriter).bank_id]_vars

\* C9: the race.  Attempt a asked for one bank id, attempt b for another,
\* and a's userProfile has read b's.
C9_Race ==
    \E a, b \in Reqs :
        /\ a # b
        /\ pc[a] = "profile"
        /\ Called(b)
        /\ Truthy(Q(a).bank_id)
        /\ Truthy(Q(b).bank_id)
        /\ Q(a).bank_id # Q(b).bank_id
        /\ readBank[a] = Q(b).bank_id
        /\ bankWriter = b

\* C10: a step changes no option other than bankId, and changes bankId only
\* as the authenticate call of a request that carries a non-empty bank_id and
\* is not intercepted; an intercepted request changes nothing.
C10_Frame ==
    [][/\ \A f \in DOMAIN options \ {"bankId"} : options'[f] = options[f]
       /\ (options'.bankId # options.bankId =>
              \E r \in Reqs :
                  /\ pc[r] = "idle"
                  /\ query'[r] # {}
                  /\ Truthy(Val(query'[r]).bank_id)
                  /\ ~(TruthyChars(Val(query'[r]).error_code)
                       /\ ~Truthy(Val(query'[r]).error))
                  /\ options'.bankId = Val(Val(query'[r]).bank_id))
       /\ \A r \in Reqs :
              (pc[r] = "idle" /\ query'[r] # {}
                  /\ TruthyChars(Val(query'[r]).error_code)
                  /\ Val(query'[r]).error = {}) => options' = options]_vars

C10_Witness ==
    \E a, b \in Reqs :
        /\ Called(a)
        /\ Intercepted(Q(a))
        /\ Truthy(Q(a).bank_id)
        /\ bankWriter = b
        /\ options.bankId = Val(Q(b).bank_id)
        /\ options.bankId # Strategy(configured).bankId
        /\ options.bankId # Val(Q(a).bank_id)

====
